---- MODULE Spec2Model ----
(***************************************************************************)
(* The WebRTC log server of lgs96/CommercialRTCAnalyzer as a state         *)
(* machine.  Two iterations of the server are in the repository:           *)
(*   "basic"       src/server.js          (finalize on an explicit close)  *)
(*   "continuous"  src/unnamed/part_000   (analysis on every batch, plus   *)
(*                                         a per-session inactivity timer) *)
(* Node runs every request handler, timer callback and child-process       *)
(* 'close' callback to completion on one thread, so each of them is one    *)
(* action.  The order of the effects inside a handler is kept in `trace`.  *)
(* The browser-side logger, src/unnamed/part_001, is modelled at the end   *)
(* of the module with a specification of its own, SpecLogger.              *)
(*                                                                         *)
(* Environment assumed by Spec: the file system calls (mkdirSync,          *)
(* writeFileSync) succeed.  The folder component of the snapshot path      *)
(* (extractTimeFromISO) is not modelled: a snapshot is identified by its   *)
(* session.                                                                *)
(***************************************************************************)
EXTENDS Integers, Sequences, FiniteSets, Bags, TLC

\* ------------------------------------------------------------- bounds
\* Accepted POST /log requests the model lets arrive.
MaxBatches == 2
\* Last instant of the clock, in ms.
MaxTime == 20000

\* ---------------------------------------------------- program constants
SESSION_TIMEOUT == 10000
\* The clock advances in steps of one timeout: a timer armed at one instant
\* is due at the next.
TickStep == SESSION_TIMEOUT

\* ------------------------------------------------------------- values
\* A JavaScript value that may be undefined/null: <<>> is null, <<v>> is v.
Null == <<>>
Some(v) == <<v>>
\* JavaScript truthiness of such a value (0 is falsy).
Truthy(x) == x # Null /\ x[1] # 0

EmptyMap == [k \in {} |-> {}]
\* obj[k] = v: the map with k bound to v and every other key as in f.
Put(f, k, v) == (k :> v) @@ f
Remove(f, k) == [x \in DOMAIN f \ {k} |-> f[x]]

UnknownSession == "unknown-session"
SessionIds == {"a", "b", UnknownSession}

\* A log entry as the server reads it: its type tag, its optional sessionId
\* field, its ICE state ("" when absent) and the stat objects of rawStats in
\* for-in order (empty when rawStats is absent), each with its optional
\* startTime.
Entry(t, sid, ice, raw) ==
  [type |-> t, sessionId |-> sid, iceConnectionState |-> ice, rawStats |-> raw]
Stat(startTime) == [startTime |-> startTime]
StatsEntry(startTimes) ==
  Entry("stats", Null, "", [i \in DOMAIN startTimes |-> Stat(startTimes[i])])
StateChange(sid, ice) == Entry("state_change", sid, ice, <<>>)

\* What express.json() hands to the handler as req.body.
NotAList == [isArray |-> FALSE, entries |-> <<>>]
List(es) == [isArray |-> TRUE, entries |-> es]
Request(header, body) == [header |-> header, body |-> body]
\* The requests that arrive: the x-webrtc-stats-session header (or none)
\* and the body.
Requests ==
  { Request(Some("a"), NotAList),
    Request(Null, List(<<>>)),
    Request(Some("a"), List(<<StatsEntry(<<Some(1)>>)>>)),
    Request(Null, List(<<StatsEntry(<<Some(0), Some(2)>>), StatsEntry(<<Some(1)>>)>>)),
    Request(Null, List(<<Entry("other", Some("a"), "", <<>>),
                         StateChange(Some("b"), "failed")>>)),
    Request(Some("a"), List(<<StateChange(Some("b"), "connected"),
                              StateChange(Some("b"), "closed")>>)) }

\* Requests that differ in where a session id is given: the header and the
\* sessionId fields of the first and of the second entry are each absent,
\* empty, "a" or "b".
IdValues == {Null, Some(""), Some("a"), Some("b")}
IdRequests ==
  { Request(header, List(<<Entry("other", first, "", <<>>),
                           Entry("other", second, "", <<>>)>>)) :
      header \in IdValues, first \in IdValues, second \in IdValues }

\* How an analyzer run ends: its captured stdout and its exit code.  The
\* stdout is a sequence of tokens: "{" "}" braces, "m" one "key": scalar
\* member, "," a comma, "x" any other text.
Exit(pyOutput, code) == [pyOutput |-> pyOutput, code |-> code]
Exits ==
  { Exit(<<"x">>, 1),
    Exit(<<"x", "{", "m", "}", "x">>, 0),
    Exit(<<"x", "{", "m", "}", "x">>, 1),
    Exit(<<"{", "}", "x", "{", "}">>, 0) }

VARIABLES
  variant,          \* which server runs: "basic" or "continuous"
  pyScriptPresent,  \* whether webrtc_analyzer.py exists beside the server
  now,              \* Date.now()
  posts,            \* POST /log requests accepted so far
  sessions,         \* const sessions = {}
  sessionTimeouts,  \* const sessionTimeouts = {}: session id -> timer handle
  timers,           \* the runtime's pending setTimeout timers
  nextTimer,        \* next timer handle
  running,          \* bag of the analyzer child processes that have not closed yet
  combinedJson,     \* all_logs_<session>.json: session id -> content
  finalResults,     \* final_results.json: session id -> content
  finalWrites,      \* history: per session, writes of final_results.json so far
  finalizeRuns,     \* history: per session, times finalizeSession's body ran
  res,              \* the response sent by the handler that ran in this step
  trace,            \* the handler that ran in this step and its effects, in order
  pendingLogs,      \* client logger: let pendingLogs = [], entries oldest first
  fetches,          \* client logger: the batches of the fetch calls not settled yet
  logged,           \* client logger: history, number of entries logData was given
  received,         \* client logger: history, entries of the fetches that succeeded
  dropped           \* client logger: history, entries the overflow trim removed

loggerVars == << pendingLogs, fetches, logged, received, dropped >>

serverVars ==
  << variant, pyScriptPresent, now, posts, sessions, sessionTimeouts, timers,
     nextTimer, running, combinedJson, finalResults, finalWrites,
     finalizeRuns, res, trace >>

vars == << serverVars, loggerVars >>

\* ------------------------------------------------- the handlers' state
\* No handler ran in this step: nothing was sent, nothing was done.
NoResponse == [status |-> 0, body |-> <<>>]
Idle == [handler |-> "none", sessionId |-> "", steps |-> <<>>]

\* What a handler reads and writes, as one record threaded through the
\* functions it calls.
Machine ==
  [ sessions |-> sessions, sessionTimeouts |-> sessionTimeouts,
    timers |-> timers, nextTimer |-> nextTimer, running |-> running,
    combinedJson |-> combinedJson,
    finalResults |-> finalResults, finalWrites |-> finalWrites,
    finalizeRuns |-> finalizeRuns, res |-> NoResponse,
    steps |-> <<>> ]

Step(st, what) == [st EXCEPT !.steps = Append(@, what)]

Commit(st, handler, sid) ==
  /\ trace' = [handler |-> handler, sessionId |-> sid, steps |-> st.steps]
  /\ res' = st.res
  /\ running' = st.running
  /\ sessions' = st.sessions
  /\ sessionTimeouts' = st.sessionTimeouts
  /\ timers' = st.timers
  /\ nextTimer' = st.nextTimer
  /\ combinedJson' = st.combinedJson
  /\ finalResults' = st.finalResults
  /\ finalWrites' = st.finalWrites
  /\ finalizeRuns' = st.finalizeRuns

\* A history counter: 0, 1, or 2 for "more than once".
count(n) == IF n < 2 THEN n + 1 ELSE n

\* A launch that waits for the child to exit before it returns (spawnSync):
\* no process is left running when the handler goes on.
spawnAndWait(st, sessionId, newLogsOnly) == Step(st, "spawn")

\* spawn('python3', [pyScript, combinedJsonPath, ...]): one more child
\* process; newLogsOnly is the flag of the call that launched it.
spawn(st, sessionId, newLogsOnly) ==
  Step([st EXCEPT !.running =
          @ (+) SetToBag({[sessionId |-> sessionId, newLogsOnly |-> newLogsOnly]})],
       "spawn")

\* processLogsAndAnalyze skipping the non-final pass of a session that is
\* analyzed already.
processLogsAndAnalyzeOpenOnly(st, sessionId, newLogsOnly) ==
  IF sessionId \notin DOMAIN st.sessions THEN st
  ELSE
    LET sessionInfo == st.sessions[sessionId]
        saved == Step([st EXCEPT !.combinedJson = Put(@, sessionId, sessionInfo.logs)],
                      "snapshot")
    IN IF newLogsOnly /\ sessionInfo.analyzed THEN st
       ELSE IF pyScriptPresent
            THEN spawn(saved, sessionId, newLogsOnly)
            ELSE saved

\* processLogsAndAnalyze writing only the newest entry to the snapshot.
processLogsAndAnalyzeNewestOnly(st, sessionId, newLogsOnly) ==
  IF sessionId \notin DOMAIN st.sessions THEN st
  ELSE
    LET sessionInfo == st.sessions[sessionId]
        saved == Step([st EXCEPT !.combinedJson =
                         Put(@, sessionId,
                             SubSeq(sessionInfo.logs, Len(sessionInfo.logs),
                                    Len(sessionInfo.logs)))],
                      "snapshot")
    IN IF pyScriptPresent
       THEN spawn(saved, sessionId, newLogsOnly)
       ELSE saved

\* -------------------------------------------------------- part_000
processLogsAndAnalyze(st, sessionId, newLogsOnly) ==
  IF sessionId \notin DOMAIN st.sessions THEN st
  ELSE
    LET sessionInfo == st.sessions[sessionId]
        saved == Step([st EXCEPT !.combinedJson = Put(@, sessionId, sessionInfo.logs)],
                      "snapshot")
    IN IF pyScriptPresent
       THEN spawn(saved, sessionId, newLogsOnly)
       ELSE saved

\* finalizeSession without the `sessionInfo.analyzed` early return.
finalizeSessionUnguarded(st, sessionId) ==
  IF sessionId \notin DOMAIN st.sessions THEN st
  ELSE processLogsAndAnalyze(
         Step([st EXCEPT !.sessions[sessionId].analyzed = TRUE,
                         !.finalizeRuns[sessionId] = count(@)],
              "analyzed"),
         sessionId, FALSE)

\* finalizeSession cancelling the session's pending timer (clearTimeout and
\* delete of the handle) once it has finalized.
finalizeSessionCancelsTimer(st, sessionId) ==
  IF sessionId \notin DOMAIN st.sessions \/ st.sessions[sessionId].analyzed THEN st
  ELSE LET finalized ==
             processLogsAndAnalyze(
               Step([st EXCEPT !.sessions[sessionId].analyzed = TRUE,
                               !.finalizeRuns[sessionId] = count(@)],
                    "analyzed"),
               sessionId, FALSE)
       IN [finalized EXCEPT
             !.timers = {t \in @ : t.sessionId # sessionId},
             !.sessionTimeouts = Remove(@, sessionId)]

finalizeSession(st, sessionId) ==
  IF sessionId \notin DOMAIN st.sessions \/ st.sessions[sessionId].analyzed THEN st
  ELSE processLogsAndAnalyze(
         Step([st EXCEPT !.sessions[sessionId].analyzed = TRUE,
                         !.finalizeRuns[sessionId] = count(@)],
              "analyzed"),
         sessionId, FALSE)

\* setupSessionTimeout without the clearTimeout of the previous timer.
setupSessionTimeoutNoClear(st, sessionId) ==
  LET timer == [id |-> st.nextTimer, sessionId |-> sessionId,
                due |-> now + SESSION_TIMEOUT]
  IN Step([st EXCEPT !.timers = @ \cup {timer},
                     !.sessionTimeouts = Put(@, sessionId, timer.id),
                     !.nextTimer = @ + 1],
          "arm")

\* setupSessionTimeout cancelling every pending timer, not only its session's.
setupSessionTimeoutClearsAll(st, sessionId) ==
  LET timer == [id |-> st.nextTimer, sessionId |-> sessionId,
                due |-> now + SESSION_TIMEOUT]
  IN Step([st EXCEPT !.timers = {timer},
                     !.sessionTimeouts = Put(@, sessionId, timer.id),
                     !.nextTimer = @ + 1],
          "arm")

\* setupSessionTimeout leaving the arming of the timer to a later turn of
\* the event loop.
setupSessionTimeoutDeferred(st, sessionId) == Step(st, "arm")

\* setupSessionTimeout leaving a timer that is already pending in place
\* instead of replacing it.
setupSessionTimeoutKeepsPending(st, sessionId) ==
  IF sessionId \in DOMAIN st.sessionTimeouts
       /\ \E t \in st.timers : t.id = st.sessionTimeouts[sessionId]
  THEN Step(st, "arm")
  ELSE LET timer == [id |-> st.nextTimer, sessionId |-> sessionId,
                     due |-> now + SESSION_TIMEOUT]
       IN Step([st EXCEPT !.timers = @ \cup {timer},
                          !.sessionTimeouts = Put(@, sessionId, timer.id),
                          !.nextTimer = @ + 1],
               "arm")

setupSessionTimeout(st, sessionId) ==
  LET kept == IF sessionId \in DOMAIN st.sessionTimeouts
              THEN {t \in st.timers : t.id # st.sessionTimeouts[sessionId]}
              ELSE st.timers
      timer == [id |-> st.nextTimer, sessionId |-> sessionId,
                due |-> now + SESSION_TIMEOUT]
  IN Step([st EXCEPT !.timers = kept \cup {timer},
                     !.sessionTimeouts = Put(@, sessionId, timer.id),
                     !.nextTimer = @ + 1],
          "arm")

\* The callback without its call of finalizeSession.
timeoutCallbackNoFinalize(st, sessionId) ==
  LET marked ==
        IF sessionId \in DOMAIN st.sessions
        THEN Step(Step([st EXCEPT !.sessions[sessionId].timedOut = TRUE,
                                  !.sessions[sessionId].isClosed = TRUE],
                       "timedOut"),
                  "isClosed")
        ELSE st
  IN Step([marked EXCEPT !.sessionTimeouts = Remove(@, sessionId)], "delete")

\* The callback invoking finalizeSession before it sets the two flags.
timeoutCallbackFinalizeFirst(st, sessionId) ==
  LET marked ==
        IF sessionId \in DOMAIN st.sessions
        THEN LET finalized == finalizeSession(st, sessionId)
             IN Step(Step([finalized EXCEPT
                             !.sessions[sessionId].timedOut = TRUE,
                             !.sessions[sessionId].isClosed = TRUE],
                          "timedOut"),
                     "isClosed")
        ELSE st
  IN Step([marked EXCEPT !.sessionTimeouts = Remove(@, sessionId)], "delete")

\* The callback given to setTimeout.
timeoutCallback(st, sessionId) ==
  LET marked ==
        IF sessionId \in DOMAIN st.sessions
        THEN finalizeSession(
               Step(Step([st EXCEPT !.sessions[sessionId].timedOut = TRUE,
                                    !.sessions[sessionId].isClosed = TRUE],
                         "timedOut"),
                    "isClosed"),
               sessionId)
        ELSE st
  IN Step([marked EXCEPT !.sessionTimeouts = Remove(@, sessionId)], "delete")

\* JavaScript truthiness of an optional string (the empty string is falsy).
TruthyString(x) == x # Null /\ x[1] # ""

\* The resolution with the first entry's sessionId tried before the header.
resolveSessionIdEntryFirst(req) ==
  IF req.body.entries # <<>> /\ TruthyString(req.body.entries[1].sessionId)
  THEN req.body.entries[1].sessionId[1]
  ELSE IF TruthyString(req.header) THEN req.header[1]
  ELSE UnknownSession

\* The resolution falling back on the last entry's sessionId before
\* 'unknown-session'.
resolveSessionIdAnyEntry(req) ==
  IF TruthyString(req.header) THEN req.header[1]
  ELSE IF req.body.entries # <<>> /\ TruthyString(req.body.entries[1].sessionId)
       THEN req.body.entries[1].sessionId[1]
  ELSE IF req.body.entries # <<>>
            /\ TruthyString(req.body.entries[Len(req.body.entries)].sessionId)
       THEN req.body.entries[Len(req.body.entries)].sessionId[1]
  ELSE UnknownSession

\* sessionId = header || (logs[0] && logs[0].sessionId) || 'unknown-session'
resolveSessionId(req) ==
  IF TruthyString(req.header) THEN req.header[1]
  ELSE IF req.body.entries # <<>> /\ TruthyString(req.body.entries[1].sessionId)
       THEN req.body.entries[1].sessionId[1]
  ELSE UnknownSession

newSession ==
  [ logs |-> <<>>, isClosed |-> FALSE, timedOut |-> FALSE,
    firstStatsTimestamp |-> Null, earliestStatsStartTime |-> Null,
    analyzed |-> FALSE, lastActivityTime |-> now ]

\* The scan keeping the smallest startTime instead of the first.
RECURSIVE scanRawStatsKeepSmallest(_, _)
scanRawStatsKeepSmallest(session, rawStats) ==
  IF rawStats = <<>> THEN session
  ELSE LET statObj == Head(rawStats)
           earliest == session.earliestStatsStartTime
       IN scanRawStatsKeepSmallest(
            IF Truthy(statObj.startTime)
                 /\ (~Truthy(earliest) \/ statObj.startTime[1] < earliest[1])
            THEN [session EXCEPT !.earliestStatsStartTime = statObj.startTime]
            ELSE session,
            Tail(rawStats))

\* The scan without the `!earliestStatsStartTime` test: the last one wins.
RECURSIVE scanRawStatsKeepLast(_, _)
scanRawStatsKeepLast(session, rawStats) ==
  IF rawStats = <<>> THEN session
  ELSE LET statObj == Head(rawStats)
       IN scanRawStatsKeepLast(
            IF Truthy(statObj.startTime)
            THEN [session EXCEPT !.earliestStatsStartTime = statObj.startTime]
            ELSE session,
            Tail(rawStats))

\* for (const statId in entry.rawStats) { ... }
RECURSIVE scanRawStats(_, _)
scanRawStats(session, rawStats) ==
  IF rawStats = <<>> THEN session
  ELSE LET statObj == Head(rawStats)
       IN scanRawStats(
            IF Truthy(statObj.startTime) /\ ~Truthy(session.earliestStatsStartTime)
            THEN [session EXCEPT !.earliestStatsStartTime = statObj.startTime]
            ELSE session,
            Tail(rawStats))

\* The list of closing states with 'failed' left out.
ClosingStatesWithoutFailed == {"closed", "disconnected"}

\* ['closed', 'failed', 'disconnected']
ClosingStates == {"closed", "failed", "disconnected"}

\* The loop body with unshift in place of push.
addEntryInFront(session, entry) ==
  LET pushed == [session EXCEPT !.logs = <<entry>> \o @]
      scanned == IF entry.type = "stats" /\ entry.rawStats # <<>>
                 THEN scanRawStats(pushed, entry.rawStats)
                 ELSE pushed
  IN IF entry.type = "state_change" /\ entry.iceConnectionState \in ClosingStates
     THEN [scanned EXCEPT !.isClosed = TRUE]
     ELSE scanned

\* The loop body marking the session timed out on a 'closed' state.
addEntryMarksTimedOut(session, entry) ==
  LET pushed == [session EXCEPT !.logs = Append(@, entry)]
      scanned == IF entry.type = "stats" /\ entry.rawStats # <<>>
                 THEN scanRawStats(pushed, entry.rawStats)
                 ELSE pushed
  IN IF entry.type = "state_change" /\ entry.iceConnectionState \in ClosingStates
     THEN [scanned EXCEPT !.isClosed = TRUE,
                          !.timedOut = (@ \/ entry.iceConnectionState = "closed")]
     ELSE scanned

\* The body of: for (const entry of logs) { ... }
addEntry(session, entry) ==
  LET pushed == [session EXCEPT !.logs = Append(@, entry)]
      scanned == IF entry.type = "stats" /\ entry.rawStats # <<>>
                 THEN scanRawStats(pushed, entry.rawStats)
                 ELSE pushed
  IN IF entry.type = "state_change" /\ entry.iceConnectionState \in ClosingStates
     THEN [scanned EXCEPT !.isClosed = TRUE]
     ELSE scanned

RECURSIVE addLogs(_, _)
addLogs(session, logs) ==
  IF logs = <<>> THEN session
  ELSE addLogs(addEntry(session, Head(logs)), Tail(logs))

\* The validation without its length test.
invalidBodyNoLengthTest(body) == ~body.isArray

\* !Array.isArray(logs) || logs.length === 0
invalidBody(body) == ~body.isArray \/ Len(body.entries) = 0

\* res.status(status).send(body); the body is kept as <<body>>.
respond(st, status, body) ==
  Step([st EXCEPT !.res = [status |-> status, body |-> <<body>>]], "respond")

\* The handler with the finalization of line 248 moved before the response.
postLogFinalizeFirst(st, req) ==
  IF invalidBody(req.body) THEN respond(st, 400, [text |-> "No logs received"]) ELSE
  LET sessionId == resolveSessionId(req)
      created == IF sessionId \in DOMAIN st.sessions THEN st
                 ELSE Step([st EXCEPT !.sessions = Put(@, sessionId, newSession)],
                           "create")
      added == Step([created EXCEPT
                       !.sessions[sessionId] = addLogs(@, req.body.entries)],
                    "append")
      stamped == [added EXCEPT !.sessions[sessionId].lastActivityTime = now]
      processed == processLogsAndAnalyze(stamped, sessionId, TRUE)
      armed == setupSessionTimeout(processed, sessionId)
      finalized == IF armed.sessions[sessionId].isClosed
                   THEN finalizeSession(armed, sessionId)
                   ELSE armed
  IN respond(finalized, 200, [text |-> "Logs received"])

\* The handler finalizing the session after every batch, closed or not.
postLogAlwaysFinalizes(st, req) ==
  IF invalidBody(req.body) THEN respond(st, 400, [text |-> "No logs received"]) ELSE
  LET sessionId == resolveSessionId(req)
      created == IF sessionId \in DOMAIN st.sessions THEN st
                 ELSE Step([st EXCEPT !.sessions = Put(@, sessionId, newSession)],
                           "create")
      added == Step([created EXCEPT
                       !.sessions[sessionId] = addLogs(@, req.body.entries)],
                    "append")
      stamped == [added EXCEPT !.sessions[sessionId].lastActivityTime = now]
      processed == processLogsAndAnalyze(stamped, sessionId, TRUE)
      armed == setupSessionTimeout(processed, sessionId)
      answered == respond(armed, 200, [text |-> "Logs received"])
  IN finalizeSession(answered, sessionId)

\* The handler making a fresh record for every accepted batch.
postLogAlwaysCreates(st, req) ==
  IF invalidBody(req.body) THEN respond(st, 400, [text |-> "No logs received"]) ELSE
  LET sessionId == resolveSessionId(req)
      created == Step([st EXCEPT !.sessions = Put(@, sessionId, newSession)],
                      "create")
      added == Step([created EXCEPT
                       !.sessions[sessionId] = addLogs(@, req.body.entries)],
                    "append")
      stamped == [added EXCEPT !.sessions[sessionId].lastActivityTime = now]
      processed == processLogsAndAnalyze(stamped, sessionId, TRUE)
      armed == setupSessionTimeout(processed, sessionId)
      answered == respond(armed, 200, [text |-> "Logs received"])
  IN IF answered.sessions[sessionId].isClosed
     THEN finalizeSession(answered, sessionId)
     ELSE answered

\* app.post('/log', ...)
postLog(st, req) ==
  IF invalidBody(req.body) THEN respond(st, 400, [text |-> "No logs received"]) ELSE
  LET sessionId == resolveSessionId(req)
      created == IF sessionId \in DOMAIN st.sessions THEN st
                 ELSE Step([st EXCEPT !.sessions = Put(@, sessionId, newSession)],
                           "create")
      added == Step([created EXCEPT
                       !.sessions[sessionId] = addLogs(@, req.body.entries)],
                    "append")
      stamped == [added EXCEPT !.sessions[sessionId].lastActivityTime = now]
      processed == processLogsAndAnalyze(stamped, sessionId, TRUE)
      armed == setupSessionTimeout(processed, sessionId)
      answered == respond(armed, 200, [text |-> "Logs received"])
  IN IF answered.sessions[sessionId].isClosed
     THEN finalizeSession(answered, sessionId)
     ELSE answered

\* app.post('/log', ...) when the mkdirSync/writeFileSync of the
\* processLogsAndAnalyze call of line 240 throws: the exception leaves the
\* handler, lines 243-250 do not run, and the framework answers 500.
postLogWriteFails(st, req) ==
  IF invalidBody(req.body) THEN respond(st, 400, [text |-> "No logs received"]) ELSE
  LET sessionId == resolveSessionId(req)
      created == IF sessionId \in DOMAIN st.sessions THEN st
                 ELSE Step([st EXCEPT !.sessions = Put(@, sessionId, newSession)],
                           "create")
      added == Step([created EXCEPT
                       !.sessions[sessionId] = addLogs(@, req.body.entries)],
                    "append")
      stamped == [added EXCEPT !.sessions[sessionId].lastActivityTime = now]
  IN respond(Step(stamped, "throw"), 500, [text |-> "Internal Server Error"])

\* app.post('/log', ...) when the write of line 240's call succeeds and the
\* write of the call made by finalizeSession (line 168) throws: analyzed is
\* already set (line 163), the final analysis is not launched, and the 200
\* response was sent before.
postLogFinalWriteFails(st, req) ==
  IF invalidBody(req.body) THEN respond(st, 400, [text |-> "No logs received"]) ELSE
  LET sessionId == resolveSessionId(req)
      created == IF sessionId \in DOMAIN st.sessions THEN st
                 ELSE Step([st EXCEPT !.sessions = Put(@, sessionId, newSession)],
                           "create")
      added == Step([created EXCEPT
                       !.sessions[sessionId] = addLogs(@, req.body.entries)],
                    "append")
      stamped == [added EXCEPT !.sessions[sessionId].lastActivityTime = now]
      processed == processLogsAndAnalyze(stamped, sessionId, TRUE)
      armed == setupSessionTimeout(processed, sessionId)
      answered == respond(armed, 200, [text |-> "Logs received"])
  IN IF answered.sessions[sessionId].isClosed /\ ~answered.sessions[sessionId].analyzed
     THEN Step(Step([answered EXCEPT !.sessions[sessionId].analyzed = TRUE,
                                     !.finalizeRuns[sessionId] = count(@)],
                    "analyzed"),
               "throw")
     ELSE answered

\* const jsonStart = pyOutput.indexOf('{'); -1 when absent (positions from 0)
indexOf(s, c) ==
  IF \E i \in DOMAIN s : s[i] = c
  THEN (CHOOSE i \in DOMAIN s : s[i] = c /\ \A j \in 1..(i - 1) : s[j] # c) - 1
  ELSE 0 - 1

lastIndexOf(s, c) ==
  IF \E i \in DOMAIN s : s[i] = c
  THEN (CHOOSE i \in DOMAIN s : s[i] = c /\ \A j \in (i + 1)..Len(s) : s[j] # c) - 1
  ELSE 0 - 1

\* pyOutput.substring(from, to): positions from 0, `to` excluded
substring(s, from, to) == SubSeq(s, from + 1, to)

\* Whether JSON.parse accepts the text: one object, its members separated
\* by commas.
jsonParses(s) ==
  /\ Len(s) >= 2
  /\ s[1] = "{"
  /\ s[Len(s)] = "}"
  /\ LET inner == SubSeq(s, 2, Len(s) - 1)
     IN \/ inner = <<>>
        \/ /\ Len(inner) % 2 = 1
           /\ \A i \in DOMAIN inner : inner[i] = (IF i % 2 = 1 THEN "m" ELSE ",")

\* The callback writing the '{'...'}' region without parsing it.
analyzerCloseNoParse(st, proc, pyOutput, code) ==
  LET sessionInfo == st.sessions[proc.sessionId]
      jsonStart == indexOf(pyOutput, "{")
      jsonEnd == lastIndexOf(pyOutput, "}")
      exited == Step([st EXCEPT !.running = @ (-) SetToBag({proc})],
                     IF code = 0 THEN "exit0" ELSE "exitNonZero")
  IN IF jsonStart >= 0 /\ jsonEnd >= 0 /\ jsonEnd > jsonStart
          /\ (sessionInfo.isClosed \/ sessionInfo.timedOut)
     THEN Step([exited EXCEPT
                  !.finalResults = Put(@, proc.sessionId,
                                       substring(pyOutput, jsonStart, jsonEnd + 1)),
                  !.finalWrites[proc.sessionId] = count(@)],
               "saveFinal")
     ELSE exited

\* The callback launching the run again when the exit code is not 0.
analyzerCloseRetries(st, proc, pyOutput, code) ==
  LET exited == Step([st EXCEPT !.running = @ (-) SetToBag({proc})],
                     IF code = 0 THEN "exit0" ELSE "exitNonZero")
  IN IF code # 0 THEN spawn(exited, proc.sessionId, proc.newLogsOnly) ELSE exited

\* The callback clearing the session's analyzed flag.
analyzerCloseClearsAnalyzed(st, proc, pyOutput, code) ==
  Step([st EXCEPT !.running = @ (-) SetToBag({proc}),
                  !.sessions[proc.sessionId].analyzed = FALSE],
       IF code = 0 THEN "exit0" ELSE "exitNonZero")

\* analyzer.on('close', ...) of processLogsAndAnalyze; the session record
\* captured by the closure is the one in `sessions`.
analyzerClose(st, proc, pyOutput, code) ==
  LET sessionInfo == st.sessions[proc.sessionId]
      jsonStart == indexOf(pyOutput, "{")
      jsonEnd == lastIndexOf(pyOutput, "}")
      exited == Step([st EXCEPT !.running = @ (-) SetToBag({proc})],
                     IF code = 0 THEN "exit0" ELSE "exitNonZero")
  IN IF jsonStart >= 0 /\ jsonEnd >= 0 /\ jsonEnd > jsonStart
     THEN LET jsonString == substring(pyOutput, jsonStart, jsonEnd + 1)
          IN IF jsonParses(jsonString)
             THEN IF sessionInfo.isClosed \/ sessionInfo.timedOut
                  THEN Step([Step(exited, "parsed") EXCEPT
                               !.finalResults = Put(@, proc.sessionId, jsonString),
                               !.finalWrites[proc.sessionId] = count(@)],
                            "saveFinal")
                  ELSE Step(exited, "parsed")
             ELSE Step(exited, "parseError")
     ELSE Step(exited, "noJson")

\* -------------------------------------------------------- server.js
newSessionBasic ==
  \* analyzed, timedOut and lastActivityTime are not properties of this
  \* record: reading them gives undefined (falsy).
  [ logs |-> <<>>, isClosed |-> FALSE, timedOut |-> FALSE,
    firstStatsTimestamp |-> Null, earliestStatsStartTime |-> Null,
    analyzed |-> FALSE, lastActivityTime |-> 0 ]

finalizeSessionBasic(st, sessionId) ==
  IF sessionId \notin DOMAIN st.sessions \/ st.sessions[sessionId].analyzed THEN st
  ELSE LET sessionInfo == st.sessions[sessionId]
       IN spawn(Step(Step(
                  [st EXCEPT !.sessions[sessionId].analyzed = TRUE,
                             !.finalizeRuns[sessionId] = count(@),
                             !.combinedJson = Put(@, sessionId, sessionInfo.logs)],
                  "analyzed"), "snapshot"),
                sessionId, FALSE)

postLogBasic(st, req) ==
  IF invalidBody(req.body) THEN respond(st, 400, [text |-> "No logs received"]) ELSE
  LET sessionId == resolveSessionId(req)
      created == IF sessionId \in DOMAIN st.sessions THEN st
                 ELSE Step([st EXCEPT !.sessions = Put(@, sessionId, newSessionBasic)],
                           "create")
      added == Step([created EXCEPT
                       !.sessions[sessionId] = addLogs(@, req.body.entries)],
                    "append")
      answered == respond(Step(added, "rawLog"), 200, [text |-> "Logs received"])
  IN IF answered.sessions[sessionId].isClosed
     THEN finalizeSessionBasic(answered, sessionId)
     ELSE answered

\* analyzer.on('close', ...) of finalizeSession: JSON.parse(pyOutput), logged.
analyzerCloseBasic(st, proc, pyOutput, code) ==
  LET exited == Step([st EXCEPT !.running = @ (-) SetToBag({proc})],
                     IF code = 0 THEN "exit0" ELSE "exitNonZero")
  IN IF jsonParses(pyOutput) THEN Step(exited, "parsed")
     ELSE Step(exited, "parseError")

\* ---------------------------------------------------------- /health
round(n, d) == (2 * n + d) \div (2 * d)

\* The summary without the `!session.analyzed` filter.
sessionSummaryOfAll ==
  [id \in DOMAIN sessions |->
        LET elapsedSinceLastActivity == now - sessions[id].lastActivityTime
        IN [ logCount |-> Len(sessions[id].logs),
             lastActivity |-> round(elapsedSinceLastActivity, 1000),
             willTimeoutIn |->
               IF id \in DOMAIN sessionTimeouts
               THEN Some(round(SESSION_TIMEOUT - elapsedSinceLastActivity, 1000))
               ELSE Null,
             isClosed |-> sessions[id].isClosed ]]

sessionSummary ==
  LET active == {id \in DOMAIN sessions : ~sessions[id].analyzed}
  IN [id \in active |->
        LET elapsedSinceLastActivity == now - sessions[id].lastActivityTime
        IN [ logCount |-> Len(sessions[id].logs),
             lastActivity |-> round(elapsedSinceLastActivity, 1000),
             willTimeoutIn |->
               IF id \in DOMAIN sessionTimeouts
               THEN Some(round(SESSION_TIMEOUT - elapsedSinceLastActivity, 1000))
               ELSE Null,
             isClosed |-> sessions[id].isClosed ]]

\* ----------------------------------------------------------- actions
Init ==
  /\ variant \in {"basic", "continuous"}
  /\ pyScriptPresent \in (IF variant = "basic" THEN {TRUE} ELSE BOOLEAN)
  /\ now = 0
  /\ posts = 0
  /\ sessions = EmptyMap
  /\ sessionTimeouts = EmptyMap
  /\ timers = {}
  /\ nextTimer = 1
  /\ running = EmptyBag
  /\ combinedJson = EmptyMap
  /\ finalResults = EmptyMap
  /\ finalWrites = [id \in SessionIds |-> 0]
  /\ finalizeRuns = [id \in SessionIds |-> 0]
  /\ res = NoResponse
  /\ trace = Idle
  /\ pendingLogs = << >>
  /\ fetches = {}
  /\ logged = 0
  /\ received = {}
  /\ dropped = {}

\* A POST /log request arrives and its handler runs.
PostLog(req) ==
  /\ variant = "continuous"
  /\ posts < MaxBatches
  /\ now + SESSION_TIMEOUT <= MaxTime
  /\ Commit(postLog(Machine, req), "post", resolveSessionId(req))
  /\ posts' = IF res'.status = 200 THEN posts + 1 ELSE posts
  /\ UNCHANGED << loggerVars, variant, pyScriptPresent, now >>

PostLogBasic(req) ==
  /\ variant = "basic"
  /\ posts < MaxBatches
  /\ Commit(postLogBasic(Machine, req), "post", resolveSessionId(req))
  /\ posts' = IF res'.status = 200 THEN posts + 1 ELSE posts
  /\ UNCHANGED << loggerVars, variant, pyScriptPresent, now >>

TimerFire(t) ==
  /\ t \in timers
  /\ now >= t.due
  /\ Commit(timeoutCallback([Machine EXCEPT !.timers = @ \ {t}], t.sessionId),
            "timer", t.sessionId)
  /\ UNCHANGED << loggerVars, variant, pyScriptPresent, now, posts >>

AnalyzerClose(proc, exit) ==
  /\ BagIn(proc, running)
  /\ Commit(IF variant = "continuous"
            THEN analyzerClose(Machine, proc, exit.pyOutput, exit.code)
            ELSE analyzerCloseBasic(Machine, proc, exit.pyOutput, exit.code),
            "close", proc.sessionId)
  /\ UNCHANGED << loggerVars, variant, pyScriptPresent, now, posts >>

\* A status read that counts as activity of every session.
HealthRefreshesActivity ==
  /\ variant = "continuous"
  /\ Commit(respond([Machine EXCEPT
                       !.sessions = [s \in DOMAIN @ |->
                                       [@[s] EXCEPT !.lastActivityTime = now]]],
                    200,
                    [ status |-> "ok", timestamp |-> now,
                      activeSessions |-> Cardinality(DOMAIN sessionSummary),
                      sessions |-> sessionSummary ]),
            "health", "")
  /\ UNCHANGED << loggerVars, variant, pyScriptPresent, now, posts >>

Health ==
  /\ variant = "continuous"
  /\ Commit(respond(Machine, 200,
                    [ status |-> "ok", timestamp |-> now,
                      activeSessions |-> Cardinality(DOMAIN sessionSummary),
                      sessions |-> sessionSummary ]),
            "health", "")
  /\ UNCHANGED << loggerVars, variant, pyScriptPresent, now, posts >>

\* Time passes; a timer that is due fires before the clock moves on.
Tick ==
  /\ now + TickStep <= MaxTime
  /\ \A t \in timers : now < t.due
  /\ now' = now + TickStep
  /\ res' = NoResponse
  /\ trace' = Idle
  /\ UNCHANGED << loggerVars, variant, pyScriptPresent, posts, sessions, sessionTimeouts,
                  timers, nextTimer, running, combinedJson,
                  finalResults, finalWrites, finalizeRuns >>

Next ==
  \/ \E req \in Requests : PostLog(req)
  \/ \E req \in Requests : PostLogBasic(req)
  \/ \E t \in timers : TimerFire(t)
  \/ \E proc \in BagToSet(running), exit \in Exits : AnalyzerClose(proc, exit)
  \/ Health
  \/ Tick

Spec == Init /\ [][Next]_vars

\* A pending timer has reached its due time: exactly the states in which a
\* timer fire is enabled.
TimerDue == \E t \in timers : now >= t.due

\* Time passes and a timer that is due is run by the event loop: weak
\* fairness of Tick and of the timer fires.  The second is
\* WF_vars(\E t \in timers : TimerFire(t)) with its ENABLED written as
\* TimerDue.
FairSpec ==
  /\ Spec
  /\ WF_vars(Tick)
  /\ \/ []<>~TimerDue
     \/ []<><<\E t \in timers : TimerFire(t)>>_vars

\* A batch arrives and the snapshot write of its handler fails (disk full,
\* directory not writable).  posts counts it: it passed the validation.
PostLogWriteFails(req) ==
  /\ variant = "continuous"
  /\ posts < MaxBatches
  /\ now + SESSION_TIMEOUT <= MaxTime
  /\ ~invalidBody(req.body)
  /\ Commit(postLogWriteFails(Machine, req), "post", resolveSessionId(req))
  /\ posts' = posts + 1
  /\ UNCHANGED << loggerVars, variant, pyScriptPresent, now >>

\* A batch arrives that makes its handler finalize the session, and the
\* snapshot write of finalizeSession fails.
PostLogFinalWriteFails(req) ==
  /\ variant = "continuous"
  /\ posts < MaxBatches
  /\ now + SESSION_TIMEOUT <= MaxTime
  /\ ~invalidBody(req.body)
  /\ Commit(postLogFinalWriteFails(Machine, req), "post", resolveSessionId(req))
  /\ trace'.steps[Len(trace'.steps)] = "throw"
  /\ posts' = posts + 1
  /\ UNCHANGED << loggerVars, variant, pyScriptPresent, now >>

NextFs ==
  \/ Next
  \/ \E req \in Requests : PostLogWriteFails(req)
  \/ \E req \in Requests : PostLogFinalWriteFails(req)

\* The servers when the snapshot writes made while a request is handled may
\* fail; the writes made by a timer fire succeed.
FsSpec == Init /\ [][NextFs]_vars

\* One request of IdRequests is handled by a server that has no session yet.
FirstPost(req) ==
  /\ posts = 0
  /\ \/ PostLog(req)
     \/ PostLogBasic(req)

NextIds == \E req \in IdRequests : FirstPost(req)

\* The servers fed with the requests that exercise the session id resolution.
SpecIds == Init /\ [][NextIds]_vars

\* ------------------------------------------------------------ claims
Exists(s) == s \in DOMAIN sessions
IsClosing(entry) ==
  entry.type = "state_change"
    /\ entry.iceConnectionState \in {"closed", "failed", "disconnected"}
ClosingEntries(logs) == {i \in DOMAIN logs : IsClosing(logs[i])}
InFlight(s, newLogsOnly) ==
  CopiesIn([sessionId |-> s, newLogsOnly |-> newLogsOnly], running)
SomePost(req) == PostLog(req) \/ PostLogBasic(req)
Accepted(req) == req.body.isArray /\ req.body.entries # <<>>

\* C1: for every session the body of finalizeSession runs at most once: it
\* has run exactly when analyzed is true, at most one final analysis was ever
\* launched, and within a handler the flag is set immediately before the
\* final snapshot is written, at most once.
C1_FinalizeAtMostOnce ==
  /\ \A s \in SessionIds :
       /\ finalizeRuns[s] <= 1
       /\ InFlight(s, FALSE) <= 1
       /\ (finalizeRuns[s] = 1) <=> (Exists(s) /\ sessions[s].analyzed)
  /\ Cardinality({i \in DOMAIN trace.steps : trace.steps[i] = "analyzed"}) <= 1
  /\ \A i \in DOMAIN trace.steps :
       trace.steps[i] = "analyzed" =>
         i < Len(trace.steps) /\ trace.steps[i + 1] = "snapshot"

\* Two batches with a closing state and a timer fire have all called
\* finalizeSession for one session.
C1_Witness ==
  \E s \in DOMAIN sessions :
    /\ Cardinality(ClosingEntries(sessions[s].logs)) >= 2
    /\ sessions[s].timedOut
    /\ finalizeRuns[s] = 1

\* C2: in the server with timers, once batches have stopped arriving every
\* session that received an accepted batch ends up, and stays, timed out,
\* closed and analyzed, with finalizeSession's body run exactly once.
C2_SilentSessionTimesOut ==
  <>[](variant = "continuous" =>
         \A s \in DOMAIN sessions :
           /\ sessions[s].timedOut /\ sessions[s].isClosed /\ sessions[s].analyzed
           /\ finalizeRuns[s] = 1)

\* The timer callback finalized a session that no batch had closed.
C2_Witness ==
  /\ trace.handler = "timer"
  /\ \E i \in DOMAIN trace.steps : trace.steps[i] = "analyzed"
  /\ LET s == trace.sessionId
     IN /\ sessions[s].timedOut /\ sessions[s].isClosed /\ sessions[s].analyzed
        /\ finalizeRuns[s] = 1
        /\ ClosingEntries(sessions[s].logs) = {}

\* C3: an accepted batch appends its entries, in order, at the end of its
\* session's logs and leaves every other session's logs alone; no other step
\* (timer fire, analyzer exit, status read, rejected request, tick) changes
\* any session's logs; no session disappears.
C3_LogsAreBatchesInArrivalOrder ==
  [][ /\ \A s \in DOMAIN sessions : s \in DOMAIN sessions'
      /\ \A req \in Requests :
           SomePost(req) /\ Accepted(req) =>
             \A s \in DOMAIN sessions' :
               sessions'[s].logs =
                 (IF Exists(s) THEN sessions[s].logs ELSE <<>>)
                   \o (IF s = resolveSessionId(req) THEN req.body.entries ELSE <<>>)
      /\ (~\E req \in Requests : SomePost(req) /\ Accepted(req)) =>
           \A s \in DOMAIN sessions' :
             Exists(s) /\ sessions'[s].logs = sessions[s].logs
    ]_vars

\* Session "a" holds the stats batch followed by the closing batch, after
\* its finalization and its timer fire.
C3_Witness ==
  /\ Exists("a")
  /\ Len(sessions["a"].logs) = 3
  /\ sessions["a"].logs[1].type = "stats"
  /\ sessions["a"].logs[2].iceConnectionState = "connected"
  /\ sessions["a"].logs[3].iceConnectionState = "closed"
  /\ sessions["a"].analyzed /\ sessions["a"].timedOut

\* C4: a request whose body is not a list or is an empty list is answered
\* with status 400 and changes nothing else: sessions, timers, analyzer
\* processes, files.
C4_RejectedRequestChangesNothing ==
  [][ \A req \in Requests :
        SomePost(req) /\ ~Accepted(req) =>
          /\ res'.status = 400
          /\ UNCHANGED << sessions, sessionTimeouts, timers, nextTimer, running,
                          combinedJson, finalResults, finalWrites, finalizeRuns,
                          posts, now >>
    ]_vars

\* A request was rejected while a session with a pending timer and a
\* running analyzer existed.
C4_Witness ==
  /\ trace.handler = "post"
  /\ res.status = 400
  /\ sessions # EmptyMap
  /\ timers # {}
  /\ running # EmptyBag

\* C5: an accepted batch with a closing state_change, for a session not
\* closed before, ends with isClosed and analyzed both true, finalizeSession's
\* body having run in that same handler.
C5_ClosingBatchFinalizesAtOnce ==
  [][ \A req \in Requests :
        LET s == resolveSessionId(req)
        IN ( /\ SomePost(req) /\ Accepted(req)
             /\ ClosingEntries(req.body.entries) # {}
             /\ ~(Exists(s) /\ sessions[s].isClosed) )
           => /\ sessions'[s].isClosed
              /\ sessions'[s].analyzed
              /\ trace'.handler = "post"
              /\ \E i \in DOMAIN trace'.steps : trace'.steps[i] = "analyzed"
    ]_vars

\* A batch carrying 'failed' has just closed and finalized a session that
\* existed before and was open.
C5_Witness ==
  /\ trace.handler = "post"
  /\ trace.steps[1] = "append"
  /\ \E i \in DOMAIN trace.steps : trace.steps[i] = "analyzed"
  /\ LET logs == sessions[trace.sessionId].logs
     IN logs[Len(logs)].iceConnectionState = "failed"
  /\ sessions[trace.sessionId].isClosed
  /\ sessions[trace.sessionId].analyzed
  /\ ~sessions[trace.sessionId].timedOut

\* C6: at every instant at most one analyzer process is in flight for a
\* given session.
C6_AtMostOneAnalyzerPerSession ==
  \A s \in SessionIds : InFlight(s, TRUE) + InFlight(s, FALSE) <= 1

\* C7: when the close callback of an analyzer run writes final_results.json,
\* that run was launched by finalizeSession (newLogsOnly = false), not by the
\* ingestion of a batch (newLogsOnly = true).
C7_OnlyTheFinalRunWritesTheFinalResult ==
  [][ \A proc \in BagToSet(running), exit \in Exits :
        ( /\ AnalyzerClose(proc, exit)
          /\ \E i \in DOMAIN trace'.steps : trace'.steps[i] = "saveFinal" )
        => ~proc.newLogsOnly
    ]_vars

\* C8: for every session final_results.json is written at most once.
C8_FinalResultWrittenAtMostOnce ==
  \A s \in SessionIds : finalWrites[s] <= 1

\* C9: every session has at most one pending timer, and a pending timer is
\* always the one its session armed last (the handle in sessionTimeouts): a
\* superseded timer is no longer pending, so it cannot fire.
C9_AtMostOnePendingTimer ==
  /\ \A s \in SessionIds : Cardinality({t \in timers : t.sessionId = s}) <= 1
  /\ \A t \in timers :
       /\ t.sessionId \in DOMAIN sessionTimeouts
       /\ sessionTimeouts[t.sessionId] = t.id

\* A session was rearmed by a second batch one timeout after the first,
\* before the first timer's callback ran; the first timer's due time has
\* come, the session has not timed out and only the second timer is pending.
C9_Witness ==
  \E s \in DOMAIN sessions :
    /\ DOMAIN sessions = {s}
    /\ posts = 2
    /\ now = SESSION_TIMEOUT
    /\ ~sessions[s].timedOut
    /\ timers = {[id |-> 2, sessionId |-> s, due |-> now + TickStep]}

\* C10: once a session's earliestStatsStartTime is set, no step changes it;
\* and inside one batch, once an entry has set it, the rest of the batch
\* leaves it as it is.
C10_EarliestStartTimeNeverOverwritten ==
  [][ /\ \A s \in DOMAIN sessions :
           sessions[s].earliestStatsStartTime # Null =>
             sessions'[s].earliestStatsStartTime = sessions[s].earliestStatsStartTime
      /\ \A req \in Requests :
           SomePost(req) /\ Accepted(req) =>
             LET s == resolveSessionId(req)
                 before == IF Exists(s) THEN sessions[s] ELSE newSession
             IN \A k \in 1..Len(req.body.entries) :
                  LET mid == addLogs(before, SubSeq(req.body.entries, 1, k))
                  IN mid.earliestStatsStartTime # Null =>
                       sessions'[s].earliestStatsStartTime = mid.earliestStatsStartTime
    ]_vars

\* A session holds two batches whose stats entries carry startTime 2 and then
\* the smaller startTime 1, and its earliestStatsStartTime is 2.
C10_Witness ==
  \E s \in DOMAIN sessions :
    /\ sessions[s].earliestStatsStartTime = Some(2)
    /\ Len(sessions[s].logs) = 4
    /\ sessions[s].logs[2].rawStats[1].startTime = Some(1)
    /\ sessions[s].logs[4].rawStats[1].startTime = Some(1)

\* The startTime fields of the stat objects of the stats entries of `logs`,
\* in arrival order (stat objects of one entry in for-in order).
RECURSIVE StartTimes(_)
StartTimes(logs) ==
  IF logs = <<>> THEN <<>>
  ELSE (IF Head(logs).type = "stats"
        THEN [i \in DOMAIN Head(logs).rawStats |-> Head(logs).rawStats[i].startTime]
        ELSE <<>>) \o StartTimes(Tail(logs))
\* The first element of `seq` at one of the positions `at`; Null when none.
FirstAt(seq, at) ==
  IF at = {} THEN Null
  ELSE seq[CHOOSE i \in at : \A j \in at : i <= j]

\* C11 as stated: a session's earliestStatsStartTime is the first startTime
\* carried by a stat object of its stats entries, whatever its value, and is
\* unset exactly when no stat object carries one.
C11_EarliestIsFirstCarried ==
  \A s \in DOMAIN sessions :
    LET all == StartTimes(sessions[s].logs)
    IN sessions[s].earliestStatsStartTime
         = FirstAt(all, {i \in DOMAIN all : all[i] # Null})

\* C11 amended: a session's earliestStatsStartTime is the first startTime, in
\* arrival order, that is not a falsy value (0 here); a startTime of 0 is
\* passed over as if absent, and the field is unset exactly when no stat
\* object carries a non-falsy startTime.
C11_EarliestIsFirstNonFalsy ==
  \A s \in DOMAIN sessions :
    LET all == StartTimes(sessions[s].logs)
    IN sessions[s].earliestStatsStartTime
         = FirstAt(all, {i \in DOMAIN all : all[i] # Null /\ all[i][1] # 0})

\* The first stat object of a session's first stats entry carries startTime
\* 0, the next one 2, a later entry 1: earliestStatsStartTime is 2.
C11_Witness ==
  \E s \in DOMAIN sessions :
    /\ Len(sessions[s].logs) = 2
    /\ StartTimes(sessions[s].logs) = <<Some(0), Some(2), Some(1)>>
    /\ sessions[s].earliestStatsStartTime = Some(2)

\* This step leaves every session other than `a` as it was: its record (if
\* it exists: none is created), its timer handle and its pending timer.
OthersUnchanged(a) ==
  \A b \in SessionIds \ {a} :
    /\ (b \in DOMAIN sessions') <=> (b \in DOMAIN sessions)
    /\ b \in DOMAIN sessions => sessions'[b] = sessions[b]
    /\ (b \in DOMAIN sessionTimeouts') <=> (b \in DOMAIN sessionTimeouts)
    /\ b \in DOMAIN sessionTimeouts => sessionTimeouts'[b] = sessionTimeouts[b]
    /\ {t \in timers' : t.sessionId = b} = {t \in timers : t.sessionId = b}

\* C12: handling a request for session a, the fire of a's timer (with the
\* finalization it triggers) and the exit of one of a's analyzer runs leave
\* every other session's logs, isClosed, timedOut, analyzed,
\* earliestStatsStartTime, lastActivityTime and pending timer unchanged.
\* (trace'.sessionId is the session of the request, timer or process that
\* the step handled.)
C12_OtherSessionsUntouched ==
  [][ trace'.handler \in {"post", "timer", "close"} =>
        OthersUnchanged(trace'.sessionId)
    ]_vars

\* A batch for one session has just been handled while another session,
\* created earlier, has its own pending timer.
C12_Witness ==
  /\ trace.handler = "post"
  /\ res.status = 200
  /\ \E b \in DOMAIN sessions \ {trace.sessionId} :
       /\ \E t \in timers : t.sessionId = b /\ t.due < now + SESSION_TIMEOUT
       /\ sessions[b].lastActivityTime < now
  /\ \E t \in timers : t.sessionId = trace.sessionId /\ t.due = now + SESSION_TIMEOUT

Launches(steps) == Cardinality({i \in DOMAIN steps : steps[i] = "spawn"})

\* C14: the handler of an accepted batch answers 200 'Logs received' in the
\* step that launches the batch's analyzer runs, every one of which is still
\* in flight when the handler ends; the exit of an analyzer, whatever its
\* output and exit code, sends no response and leaves the count of accepted
\* batches alone.
C14_ResponseDoesNotWaitForAnalyzer ==
  [][ /\ trace'.handler = "post" =>
           \A req \in Requests :
             SomePost(req) /\ Accepted(req) =>
               /\ res' = [status |-> 200, body |-> <<[text |-> "Logs received"]>>]
               /\ running \sqsubseteq running'
               /\ BagCardinality(running')
                    = BagCardinality(running) + Launches(trace'.steps)
      /\ trace'.handler = "close" => res' = NoResponse /\ posts' = posts
    ]_vars

\* A second batch of a session has just been answered 200 with its own
\* analyzer run in flight, after the run launched by the first batch ended.
C14_Witness ==
  /\ trace.handler = "post"
  /\ res.status = 200
  /\ posts = 2
  /\ DOMAIN sessions = {trace.sessionId}
  /\ Launches(trace.steps) = 1
  /\ BagCardinality(running) = 1

\* The position of the response among the effects of the handler that ran.
Responded == CHOOSE i \in DOMAIN trace.steps : trace.steps[i] = "respond"

\* C15 as stated: in the handler of an accepted batch the success response
\* is the last effect, sent after the finalization trigger: if the handler
\* finalized the session, analyzed was set before the response.
C15_ResponseAfterFinalization ==
  (trace.handler = "post" /\ res.status = 200) =>
    \A i \in DOMAIN trace.steps : trace.steps[i] = "analyzed" => i < Responded

\* C15 amended: the success response is sent after the session was created,
\* the entries appended and (continuous server) the snapshot written, the
\* non-final analysis launched and the timer armed, or (basic server) the raw
\* batch written, and BEFORE the finalization trigger: when the handler
\* finalizes the session, analyzed is set, the final snapshot written and the
\* final analysis launched after the response, in the same handler.
C15_ResponseBeforeFinalization ==
  (trace.handler = "post" /\ res.status = 200) =>
    /\ \A i \in DOMAIN trace.steps :
         \/ i = Responded
         \/ /\ i < Responded
            /\ trace.steps[i] \in {"create", "append", "snapshot", "spawn", "arm", "rawLog"}
         \/ /\ i > Responded
            /\ trace.steps[i] \in {"analyzed", "snapshot", "spawn"}
    /\ \E i \in 1..(Responded - 1) : trace.steps[i] = "append"
    /\ variant = "continuous" =>
         /\ \E i \in 1..(Responded - 1) : trace.steps[i] = "snapshot"
         /\ \E i \in 1..(Responded - 1) : trace.steps[i] = "arm"
    /\ variant = "basic" =>
         \E i \in 1..(Responded - 1) : trace.steps[i] = "rawLog"
    /\ ( /\ sessions[trace.sessionId].isClosed
         /\ \A i \in 1..Responded : trace.steps[i] # "analyzed" )
       => \/ \E i \in DOMAIN trace.steps : i > Responded /\ trace.steps[i] = "analyzed"
          \/ Responded = Len(trace.steps) /\ sessions[trace.sessionId].analyzed

\* A closing batch for a new session was answered 200 and then finalized in
\* the same handler.
C15_Witness ==
  /\ res.status = 200
  /\ trace.handler = "post"
  /\ trace.steps = << "create", "append", "snapshot", "spawn", "arm", "respond",
                      "analyzed", "snapshot", "spawn" >>

\* A session id is given: the value is there and is not the empty string.
Given(x) == x # Null /\ x[1] # ""

\* C16: an accepted batch is applied to the session named by the header when
\* the header gives an id, otherwise to the one named by the sessionId field
\* of the batch's first entry when it gives one, otherwise to
\* "unknown-session"; the header wins over the entries' sessionId fields, and
\* the sessionId of a later entry is never used.  (An empty header or field
\* gives no id.)
C16_SessionIdPrecedence ==
  [][ \A req \in IdRequests :
        FirstPost(req) =>
          LET target ==
                IF Given(req.header) THEN req.header[1]
                ELSE IF Given(req.body.entries[1].sessionId)
                     THEN req.body.entries[1].sessionId[1]
                ELSE "unknown-session"
          IN /\ DOMAIN sessions' = {target}
             /\ sessions'[target].logs = req.body.entries
    ]_vars

\* A batch whose header names "a" while its entries name "b" was applied to
\* session "a".
C16_Witness ==
  /\ DOMAIN sessions = {"a"}
  /\ Len(sessions["a"].logs) = 2
  /\ sessions["a"].logs[1].sessionId = Some("b")
  /\ sessions["a"].logs[2].sessionId = Some("b")

\* The stdout has a '{' followed, somewhere after it, by a '}', and the text
\* from the first '{' to the last '}' is accepted by JSON.parse.
HasJsonObject(pyOutput) ==
  LET opens == {i \in DOMAIN pyOutput : pyOutput[i] = "{"}
      closes == {i \in DOMAIN pyOutput : pyOutput[i] = "}"}
  IN /\ opens # {} /\ closes # {}
     /\ LET from == CHOOSE i \in opens : \A j \in opens : i <= j
            to == CHOOSE i \in closes : \A j \in closes : i >= j
        IN from < to /\ jsonParses(SubSeq(pyOutput, from, to))

UnparsableExits == {e \in Exits : ~HasJsonObject(e.pyOutput)}

\* C17: when the stdout of an analyzer run has no '{'...'}' region, or the
\* region does not parse, the exit callback writes nothing to
\* final_results.json and changes no session record, timer handle or pending
\* timer; it only retires the process (running' is running less that
\* process).
C17_UnparsableOutputIsDropped ==
  [][ trace'.handler = "close" =>
        \A proc \in {p \in BagToSet(running) : running' = running (-) SetToBag({p})},
           exit \in UnparsableExits :
          AnalyzerClose(proc, exit) =>
            UNCHANGED << finalResults, finalWrites, sessions, sessionTimeouts,
                         timers, combinedJson, posts >>
    ]_vars

\* A run of a closed session in the server that saves final results has
\* exited with code 0 and nothing was saved: its stdout did not parse.
C17_Witness ==
  /\ variant = "continuous"
  /\ trace.handler = "close"
  /\ trace.steps = <<"exit0", "parseError">>
  /\ sessions[trace.sessionId].isClosed

\* C18: the exit of an analyzer with a non-zero code leaves every session's
\* analyzed flag as it was and launches nothing: the process is retired and
\* no other appears.  A process is launched only by the handler of a batch or
\* by a timer fire (finalization).
C18_FailedRunIsNotRetried ==
  [][ /\ (trace'.handler = "close" /\ trace'.steps[1] = "exitNonZero") =>
           /\ \A s \in DOMAIN sessions :
                sessions'[s].analyzed = sessions[s].analyzed
           /\ running' \sqsubseteq running
           /\ BagCardinality(running') = BagCardinality(running) - 1
      /\ ~(running' \sqsubseteq running) => trace'.handler \in {"post", "timer"}
    ]_vars

\* The final run of an analyzed session exited with a non-zero code; the
\* session is still analyzed and no analyzer is running.
C18_Witness ==
  /\ trace.handler = "close"
  /\ trace.steps[1] = "exitNonZero"
  /\ sessions[trace.sessionId].analyzed
  /\ running = EmptyBag

\* C20: isClosed, timedOut and analyzed of a session, once true, are true
\* after every step.
C20_FlagsOnlyBecomeTrue ==
  [][ \A s \in DOMAIN sessions :
        /\ s \in DOMAIN sessions'
        /\ sessions[s].isClosed => sessions'[s].isClosed
        /\ sessions[s].timedOut => sessions'[s].timedOut
        /\ sessions[s].analyzed => sessions'[s].analyzed
    ]_vars

\* An analyzer run exited and saved its result for a session that is closed,
\* timed out and analyzed.
C20_Witness ==
  /\ trace.handler = "close"
  /\ trace.steps = <<"exit0", "parsed", "saveFinal">>
  /\ sessions[trace.sessionId].isClosed
  /\ sessions[trace.sessionId].timedOut
  /\ sessions[trace.sessionId].analyzed

\* C19: when a snapshot write fails while a batch is handled, the session
\* records, the timer handles and the pending timers at the end of the
\* handler are what they would be had the write succeeded: the timer is
\* rearmed and, if the batch closed the session, the session is finalized.
C19_WriteFailureLeavesSessionStateIntact ==
  [][ \A req \in Requests :
        (PostLogWriteFails(req) \/ PostLogFinalWriteFails(req)) =>
          LET ok == postLog(Machine, req)
          IN /\ sessions' = ok.sessions
             /\ sessionTimeouts' = ok.sessionTimeouts
             /\ timers' = ok.timers
    ]_vars

\* The first startTime of `logs` that is not falsy; Null when none.
FirstStartTime(logs) ==
  LET all == StartTimes(logs)
  IN FirstAt(all, {i \in DOMAIN all : all[i] # Null /\ all[i][1] # 0})

\* The step is the handler of an accepted batch.
AcceptedPost == trace'.handler = "post" /\ res'.status = 200

\* C21: a session record appears only in the handler of an accepted batch
\* for its id, when the store has none for that id; it starts with empty logs
\* and all flags false/null, so that after the handler it holds that batch
\* alone and the flags that batch gives it.  An accepted batch for an id the
\* store already has creates nothing and resets nothing: the logs it had stay
\* in front, a true isClosed, timedOut or analyzed stays true and a set
\* earliestStatsStartTime stays what it was.  No step removes a session.
C21_SessionCreatedOnceNeverRemoved ==
  [][ /\ DOMAIN sessions \subseteq DOMAIN sessions'
      /\ DOMAIN sessions' \ DOMAIN sessions
           \subseteq (IF AcceptedPost THEN {trace'.sessionId} ELSE {})
      /\ AcceptedPost =>
           LET s == trace'.sessionId
               new == sessions'[s]
           IN IF ~Exists(s)
              THEN /\ trace'.steps[1] = "create"
                   /\ Cardinality({i \in DOMAIN trace'.steps :
                                     trace'.steps[i] = "create"}) = 1
                   /\ new.logs # <<>>
                   /\ ~new.timedOut
                   /\ new.isClosed <=> ClosingEntries(new.logs) # {}
                   /\ new.analyzed <=> new.isClosed
                   /\ new.earliestStatsStartTime = FirstStartTime(new.logs)
                   /\ new.firstStatsTimestamp = Null
                   /\ variant = "continuous" => new.lastActivityTime = now
              ELSE LET old == sessions[s]
                   IN /\ \A i \in DOMAIN trace'.steps : trace'.steps[i] # "create"
                      /\ Len(new.logs) > Len(old.logs)
                      /\ SubSeq(new.logs, 1, Len(old.logs)) = old.logs
                      /\ old.isClosed => new.isClosed
                      /\ new.timedOut = old.timedOut
                      /\ old.analyzed => new.analyzed
                      /\ old.earliestStatsStartTime # Null =>
                           new.earliestStatsStartTime = old.earliestStatsStartTime
                      /\ new.firstStatsTimestamp = old.firstStatsTimestamp
    ]_vars

\* A second batch has just been appended to an existing session that was
\* closed, analyzed and had its start time set: the record kept its first
\* batch in front, its flags and its start time, beside a session created
\* by one batch.
C21_Witness ==
  /\ trace.handler = "post"
  /\ trace.steps[1] = "append"
  /\ posts = 2
  /\ LET s == trace.sessionId
     IN /\ Len(sessions[s].logs) > 1
        /\ sessions[s].isClosed /\ sessions[s].analyzed
        /\ ~IsClosing(sessions[s].logs[Len(sessions[s].logs)])

\* C22: a /health request changes nothing but the response it sends: the
\* session store (every session's logs, flags, start time and
\* lastActivityTime), the timer handles, the pending timers, the analyzer
\* processes in flight and the files written are the same before and after.
C22_StatusReadChangesNothing ==
  [][ trace'.handler = "health" =>
        /\ res'.status = 200
        /\ UNCHANGED << sessions, sessionTimeouts, timers, nextTimer, running,
                        combinedJson, finalResults, finalWrites, finalizeRuns,
                        posts, now >>
    ]_vars

\* A status read has just been answered while two sessions exist, one of
\* them idle for a whole timeout with its timer due and an analyzer in
\* flight.
C22_Witness ==
  /\ trace.handler = "health"
  /\ res.status = 200
  /\ Cardinality(DOMAIN sessions) = 2
  /\ running # EmptyBag
  /\ \E t \in timers :
       /\ now >= t.due
       /\ sessions[t.sessionId].lastActivityTime < now

\* The handler's steps include `what`.
Did(what) == \E i \in DOMAIN trace.steps : trace.steps[i] = what

\* The pending timers of session s.
Pending(s) == {t \in timers : t.sessionId = s}

\* C23: the handler of a batch runs from its first line to its last without
\* yielding, so every state another operation (status read, timer callback,
\* analyzer exit, other batch) can observe shows each session with all the
\* effects of every batch it received: the record is never empty, its
\* earliestStatsStartTime and isClosed agree with all its logs, its snapshot
\* holds all its logs, a closed session is analyzed, and its timer is armed
\* for lastActivityTime + SESSION_TIMEOUT unless it has timed out since.  The
\* handler that just ended did all of this in its one step.  (Handlers that
\* run to their end: a write that throws is the case of C19.)
C23_BatchEffectsAreOneStep ==
  /\ \A s \in DOMAIN sessions :
       LET session == sessions[s]
       IN /\ session.logs # <<>>
          /\ session.earliestStatsStartTime = FirstStartTime(session.logs)
          /\ session.isClosed
               <=> (ClosingEntries(session.logs) # {} \/ session.timedOut)
          /\ session.isClosed <=> session.analyzed
          /\ session.analyzed <=> finalizeRuns[s] = 1
          /\ variant = "continuous" =>
               /\ s \in DOMAIN combinedJson /\ combinedJson[s] = session.logs
               /\ session.lastActivityTime <= now
               /\ IF Pending(s) = {}
                  THEN session.timedOut /\ s \notin DOMAIN sessionTimeouts
                  ELSE /\ s \in DOMAIN sessionTimeouts
                       /\ Pending(s) =
                            {[ id |-> sessionTimeouts[s], sessionId |-> s,
                               due |-> session.lastActivityTime + SESSION_TIMEOUT ]}
  /\ (trace.handler = "post" /\ res.status = 200) =>
       /\ Did("append") /\ Did("respond")
       /\ variant = "continuous" =>
            /\ Did("snapshot") /\ Did("arm")
            /\ Did("spawn") <=> pyScriptPresent
            /\ sessions[trace.sessionId].lastActivityTime = now
       /\ variant = "basic" =>
            (Did("analyzed") => Did("snapshot") /\ Did("spawn"))

\* The handler of a batch has just ended for a session that had timed out
\* before: in its one step it appended, took the snapshot, launched the
\* analyzer, armed the timer and answered.
C23_Witness ==
  /\ variant = "continuous"
  /\ trace.handler = "post"
  /\ trace.steps = <<"append", "snapshot", "spawn", "arm", "respond">>
  /\ LET session == sessions[trace.sessionId]
     IN /\ session.timedOut
        /\ Len(session.logs) > 1
        /\ Pending(trace.sessionId) # {}

\* C24: the callback of a session's timer sets timedOut and isClosed, then
\* invokes finalizeSession (which sets analyzed, writes the snapshot and
\* launches the final run unless the session was analyzed already), and last
\* deletes the session's timer handle; right after it the session has
\* timedOut = isClosed = analyzed = true, no timer handle and no pending timer.
C24_TimerFireOrder ==
  [][ trace'.handler = "timer" =>
        LET s == trace'.sessionId
        IN /\ trace'.steps =
                <<"timedOut", "isClosed">>
                  \o (IF sessions[s].analyzed THEN <<>>
                      ELSE <<"analyzed", "snapshot">>
                             \o (IF pyScriptPresent THEN <<"spawn">> ELSE <<>>))
                  \o <<"delete">>
           /\ sessions'[s].timedOut
           /\ sessions'[s].isClosed
           /\ sessions'[s].analyzed
           /\ s \notin DOMAIN sessionTimeouts'
           /\ {t \in timers' : t.sessionId = s} = {}
    ]_vars

\* The timer of an open session has just fired: the callback set the two
\* flags, finalized the session and deleted the handle, while the other
\* session's timer is still pending.
C24_Witness ==
  /\ trace.handler = "timer"
  /\ trace.steps = <<"timedOut", "isClosed", "analyzed", "snapshot", "spawn", "delete">>
  /\ LET s == trace.sessionId
     IN /\ sessions[s].timedOut /\ sessions[s].isClosed /\ sessions[s].analyzed
        /\ ClosingEntries(sessions[s].logs) = {}
        /\ Pending(s) = {}
        /\ s \notin DOMAIN sessionTimeouts
  /\ timers # {}

\* C25: at the end of the handler of every accepted batch (server with
\* timers) the session's lastActivityTime is the time of the batch and the
\* session has exactly one pending timer: a new one, made by this handler,
\* due a full SESSION_TIMEOUT after the batch, and recorded as the session's
\* timer handle; every timer of the session pending before is gone.  This
\* holds also for a closed, analyzed or timed-out session.
C25_EveryBatchRearmsTheTimer ==
  [][ (AcceptedPost /\ variant = "continuous") =>
        LET s == trace'.sessionId
            timer == [id |-> nextTimer, sessionId |-> s,
                      due |-> now + SESSION_TIMEOUT]
        IN /\ {t \in timers' : t.sessionId = s} = {timer}
           /\ timer \notin timers
           /\ Pending(s) \cap timers' = {}
           /\ sessionTimeouts'[s] = timer.id
           /\ sessions'[s].lastActivityTime = now
           /\ \E i \in DOMAIN trace'.steps : trace'.steps[i] = "arm"
    ]_vars

\* A batch arrived a full timeout after the session's previous one, when the
\* first timer was due but its callback had not run: that timer was
\* cancelled and only the new one, due a timeout from now, is pending.
C25_Witness ==
  /\ variant = "continuous"
  /\ trace.handler = "post"
  /\ res.status = 200
  /\ now = SESSION_TIMEOUT
  /\ LET s == trace.sessionId
     IN /\ trace.steps[1] = "append"
        /\ ~sessions[s].timedOut
        /\ sessions[s].lastActivityTime = now
        /\ Pending(s) = {[id |-> 2, sessionId |-> s, due |-> 2 * SESSION_TIMEOUT]}

\* `a` is the beginning of `b`.
IsPrefix(a, b) == Len(a) <= Len(b) /\ SubSeq(b, 1, Len(a)) = a

BeforeArm(steps) ==
  SubSeq(steps, 1, (CHOOSE i \in DOMAIN steps : steps[i] = "arm") - 1)

\* C27: the handler of every accepted batch (server with timers) calls
\* processLogsAndAnalyze(sessionId, true) once, whatever the session's flags
\* and whatever became of earlier runs: between the append and the arming of
\* the timer it rewrites the snapshot with all the session's logs and, the
\* analyzer script being installed, launches exactly one non-final run, which
\* is in flight when the handler ends.  (Without the script the call writes
\* the snapshot and launches nothing.)
C27_EveryBatchTriggersOneAnalysis ==
  [][ (AcceptedPost /\ variant = "continuous") =>
        LET s == trace'.sessionId
            first == BeforeArm(trace'.steps)
            n == Len(first)
        IN /\ n >= 2
           /\ first[n - (IF pyScriptPresent THEN 1 ELSE 0)] = "snapshot"
           /\ first[n - (IF pyScriptPresent THEN 2 ELSE 1)] = "append"
           /\ pyScriptPresent => first[n] = "spawn"
           /\ combinedJson'[s] = sessions'[s].logs
           /\ CopiesIn([sessionId |-> s, newLogsOnly |-> TRUE], running') =
                InFlight(s, TRUE) + (IF pyScriptPresent THEN 1 ELSE 0)
    ]_vars

\* A batch has just been handled for a session that had timed out and been
\* finalized, whose final run had ended without saving a result: the handler
\* launched a non-final run all the same.
C27_Witness ==
  /\ variant = "continuous"
  /\ trace.handler = "post"
  /\ trace.steps = <<"append", "snapshot", "spawn", "arm", "respond">>
  /\ LET s == trace.sessionId
     IN /\ sessions[s].timedOut /\ sessions[s].isClosed /\ sessions[s].analyzed
        /\ finalizeRuns[s] = 1
        /\ finalWrites[s] = 0
        /\ InFlight(s, FALSE) = 0
        /\ InFlight(s, TRUE) = 1

\* Where `what` is the first time among the handler's steps; 0 when absent.
StepOf(what) ==
  IF Did(what)
  THEN CHOOSE i \in DOMAIN trace.steps :
         trace.steps[i] = what /\ \A j \in 1..(i - 1) : trace.steps[j] # what
  ELSE 0

\* C28: in every reachable state a session whose analyzed is true has
\* isClosed or timedOut true; and in the handler that finalizes a session the
\* flag that closes it is set first: the timer callback sets timedOut and
\* isClosed before analyzed, the handler of a batch appends the closing entry
\* before it sets analyzed.
C28_AnalyzedOnlyWhenClosed ==
  /\ \A s \in DOMAIN sessions :
       sessions[s].analyzed => sessions[s].isClosed \/ sessions[s].timedOut
  /\ Did("analyzed") =>
       /\ trace.handler \in {"post", "timer"}
       /\ trace.handler = "timer" =>
            /\ StepOf("timedOut") # 0 /\ StepOf("timedOut") < StepOf("analyzed")
            /\ StepOf("isClosed") # 0 /\ StepOf("isClosed") < StepOf("analyzed")
       /\ trace.handler = "post" =>
            /\ StepOf("append") # 0 /\ StepOf("append") < StepOf("analyzed")
            /\ ClosingEntries(sessions[trace.sessionId].logs) # {}

\* Two sessions are analyzed: one closed by a closing entry and not timed
\* out, the other timed out without any closing entry.
C28_Witness ==
  \E s, t \in DOMAIN sessions :
    /\ sessions[s].analyzed /\ sessions[s].isClosed /\ ~sessions[s].timedOut
    /\ ClosingEntries(sessions[s].logs) # {}
    /\ sessions[t].analyzed /\ sessions[t].timedOut
    /\ ClosingEntries(sessions[t].logs) = {}

\* C29: a session's timedOut changes only in the callback of that session's
\* own timer, which sets it to true as its first step; a record is created
\* with timedOut false, and the handler of a batch (closing or not), the
\* finalization it calls, the exit of an analyzer, a status read and the
\* callback of another session's timer leave every timedOut as it was.
C29_TimedOutOnlyByTimerFire ==
  [][ \A s \in DOMAIN sessions' :
        LET before == IF Exists(s) THEN sessions[s].timedOut ELSE FALSE
        IN sessions'[s].timedOut # before =>
             /\ ~before
             /\ trace'.handler = "timer"
             /\ trace'.sessionId = s
             /\ trace'.steps[1] = "timedOut"
    ]_vars

\* The timer of a session closed and finalized by its one closing batch has
\* just fired: the batch had left timedOut false, the callback set it.
C29_Witness ==
  /\ posts = 1
  /\ trace.handler = "timer"
  /\ trace.steps = <<"timedOut", "isClosed", "delete">>
  /\ LET s == trace.sessionId
     IN /\ sessions[s].timedOut
        /\ ClosingEntries(sessions[s].logs) # {}
        /\ finalizeRuns[s] = 1

\* The text from the first '{' to the last '}' of the stdout, both included;
\* Null when one of the two is missing or the last '}' is not after the
\* first '{'.
JsonRegion(pyOutput) ==
  LET opens == {i \in DOMAIN pyOutput : pyOutput[i] = "{"}
      closes == {i \in DOMAIN pyOutput : pyOutput[i] = "}"}
  IN IF opens = {} \/ closes = {} THEN Null
     ELSE LET from == CHOOSE i \in opens : \A j \in opens : i <= j
              to == CHOOSE i \in closes : \A j \in closes : i >= j
          IN IF to > from THEN Some(SubSeq(pyOutput, from, to)) ELSE Null

\* C30: what the exit callback of an analyzer run hands to JSON.parse is the
\* text from the first '{' to the last '}' of the captured stdout, and
\* nothing when there is no such region: the run's result is parsed exactly
\* when that region exists and is a JSON object, whatever text stands before
\* or after it, and a result that is saved is that region.
C30_RegionIsFirstToLastBrace ==
  [][ \A proc \in BagToSet(running), exit \in Exits :
        AnalyzerClose(proc, exit) =>
          LET region == JsonRegion(exit.pyOutput)
          IN /\ (\E i \in DOMAIN trace'.steps : trace'.steps[i] = "parsed")
                  <=> (region # Null /\ jsonParses(region[1]))
             /\ (\E i \in DOMAIN trace'.steps : trace'.steps[i] = "noJson")
                  <=> region = Null
             /\ (\E i \in DOMAIN trace'.steps : trace'.steps[i] = "saveFinal")
                  => finalResults'[proc.sessionId] = region[1]
    ]_vars

\* C31: in the server with timers every state between handlers has a pending
\* timer, recorded as its timer handle, for every session whose analyzed is
\* false; so a /health response never reports 'No timeout' (Null) for a
\* session it lists.
C31_UnanalyzedSessionHasTimer ==
  variant = "continuous" =>
    /\ \A s \in DOMAIN sessions :
         ~sessions[s].analyzed =>
           /\ s \in DOMAIN sessionTimeouts
           /\ \E t \in Pending(s) : t.id = sessionTimeouts[s]
    /\ trace.handler = "health" =>
         \A s \in DOMAIN res.body[1].sessions :
           res.body[1].sessions[s].willTimeoutIn # Null

\* C32: in every state between handlers a session whose isClosed is true has
\* analyzed true: a session is closed (or timed out) and finalized in the
\* same handler.  So every session that a /health response lists has
\* isClosed false.
C32_ClosedSessionIsAnalyzed ==
  /\ \A s \in DOMAIN sessions :
       (sessions[s].isClosed \/ sessions[s].timedOut) => sessions[s].analyzed
  /\ trace.handler = "health" =>
       \A s \in DOMAIN res.body[1].sessions : ~res.body[1].sessions[s].isClosed

\* C33: in the server with timers finalization stops neither the timer nor
\* ingestion.  The handler of a batch that finalizes its session leaves the
\* timer it armed pending.  The fire of the timer of a session that is
\* analyzed already sets timedOut and isClosed, finalizes nothing (no
\* snapshot, no launch, finalizeSession's body not run again) and deletes the
\* handle.  Where a request arrives for an analyzed session, every valid
\* batch for that session is accepted with 200, appended after the logs the
\* session has, and arms a new timer.
C33_FinalizedSessionStillTimesOutAndIngests ==
  [][ variant = "continuous" =>
        /\ ( /\ trace'.handler = "post"
             /\ Exists(trace'.sessionId)
             /\ sessions[trace'.sessionId].analyzed ) =>
             \A req \in Requests :
               LET s == resolveSessionId(req)
               IN (Accepted(req) /\ s = trace'.sessionId) =>
                    LET st == postLog(Machine, req)
                    IN /\ st.res.status = 200
                       /\ st.sessions[s].logs = sessions[s].logs \o req.body.entries
                       /\ st.sessions[s].analyzed
                       /\ st.finalizeRuns[s] = finalizeRuns[s]
                       /\ {t \in st.timers : t.sessionId = s}
                            = {[ id |-> nextTimer, sessionId |-> s,
                                 due |-> now + SESSION_TIMEOUT ]}
        /\ (AcceptedPost /\ \E i \in DOMAIN trace'.steps :
                              trace'.steps[i] = "analyzed") =>
             /\ trace'.sessionId \in DOMAIN sessionTimeouts'
             /\ \E t \in timers' :
                  /\ t.sessionId = trace'.sessionId
                  /\ t.id = sessionTimeouts'[trace'.sessionId]
        /\ (trace'.handler = "timer" /\ sessions[trace'.sessionId].analyzed) =>
             LET s == trace'.sessionId
             IN /\ trace'.steps = <<"timedOut", "isClosed", "delete">>
                /\ sessions'[s].timedOut /\ sessions'[s].isClosed
                /\ sessions'[s].analyzed
                /\ finalizeRuns' = finalizeRuns
                /\ running' = running
                /\ combinedJson' = combinedJson
                /\ sessions'[s].logs = sessions[s].logs
    ]_vars

\* A session closed and finalized by its first batch received a second batch
\* afterwards, which was appended and rearmed the timer; that timer has now
\* fired and set timedOut, finalizing nothing.
C33_Witness ==
  /\ variant = "continuous"
  /\ trace.handler = "timer"
  /\ trace.steps = <<"timedOut", "isClosed", "delete">>
  /\ posts = 2
  /\ now = 2 * SESSION_TIMEOUT
  /\ LET s == trace.sessionId
     IN /\ DOMAIN sessions = {s}
        /\ sessions[s].timedOut /\ sessions[s].analyzed
        /\ IsClosing(sessions[s].logs[2])
        /\ Len(sessions[s].logs) > 2
        /\ sessions[s].lastActivityTime = SESSION_TIMEOUT
        /\ finalizeRuns[s] = 1

\* The request `req` with the sessionId field of its entry i set to `id`.
WithEntryId(req, i, id) == [req EXCEPT !.body.entries[i].sessionId = id]

\* What the handler of the running server makes of `req`.
Handled(req) ==
  IF variant = "continuous" THEN postLog(Machine, req) ELSE postLogBasic(Machine, req)

\* C34: the handler of an accepted batch appends every entry of the batch to
\* one session, the one it resolved once from the header or the first entry,
\* and creates or changes no other, not even one named by an entry's
\* sessionId field.  The sessionId fields of the entries after the first are
\* not consulted: whatever they hold, the batch goes to the same session and
\* gives it the same number of entries.
C34_WholeBatchGoesToOneSession ==
  [][ \A req \in IdRequests :
        FirstPost(req) =>
          LET s == trace'.sessionId
              entries == req.body.entries
          IN /\ DOMAIN sessions' = {s}
             /\ Len(sessions'[s].logs) = Len(entries)
             /\ \A i \in DOMAIN entries :
                  /\ sessions'[s].logs[i] = entries[i]
                  /\ (Given(entries[i].sessionId) /\ entries[i].sessionId[1] # s)
                       => entries[i].sessionId[1] \notin DOMAIN sessions'
             /\ \A i \in 2..Len(entries), id \in IdValues :
                  LET st == Handled(WithEntryId(req, i, id))
                  IN /\ DOMAIN st.sessions = {s}
                     /\ Len(st.sessions[s].logs) = Len(entries)
                     /\ st.sessions[s].logs[i].sessionId = id
    ]_vars

\* A batch without header whose first entry gives no id and whose second
\* entry names "b" went, both entries, to "unknown-session"; no session "b"
\* exists.
C34_Witness ==
  /\ DOMAIN sessions = {UnknownSession}
  /\ Len(sessions[UnknownSession].logs) = 2
  /\ ~Given(sessions[UnknownSession].logs[1].sessionId)
  /\ sessions[UnknownSession].logs[2].sessionId = Some("b")

\* ===================================================== the client logger
\* src/unnamed/part_001 is the userscript that runs in the browser page and
\* feeds the server: logData queues an entry, sendLogs posts the queue.  Two
\* versions of it are in the file (v0.1 and v0.3); their logData and sendLogs
\* differ only in when they write to the console, so one model covers both.
\* The script runs on the page's single thread: logData, the part of sendLogs
\* up to `await fetch(...)`, and the part after it are each one action.
\* An entry is identified by its number in the order logData was given it.
\* Assumed: setConfig does not change maxLogsBeforeSend while the logger runs.

\* CONFIG.maxLogsBeforeSend (1000 in the script), kept small here.
maxLogsBeforeSend == 2
\* The number of entries the page logs.
MaxLogged == 6

\* What logData and sendLogs read and write.
Logger ==
  [ pendingLogs |-> pendingLogs, fetches |-> fetches,
    received |-> received, dropped |-> dropped ]

Range(seq) == { seq[i] : i \in DOMAIN seq }

\* Array.prototype.slice(-n): the last n elements, all of them if there are fewer.
sliceLast(arr, n) ==
  IF Len(arr) <= n THEN arr ELSE SubSeq(arr, Len(arr) - n + 1, Len(arr))

\* sendLogs up to the await: nothing to do on an empty queue; otherwise the
\* queue becomes the batch, the queue is emptied, and the request is issued.
sendLogs(c) ==
  IF Len(c.pendingLogs) = 0
    THEN c
    ELSE LET logsToSend == c.pendingLogs
         IN  [c EXCEPT !.pendingLogs = << >>,
                       !.fetches = @ \cup {logsToSend}]

\* sendLogs after the await, response.ok.
sendLogsOk(c, logsToSend) ==
  [c EXCEPT !.fetches = @ \ {logsToSend},
            !.received = @ \cup Range(logsToSend)]

\* A variant of the catch block that queues the failed batch behind the
\* entries logged meanwhile.
sendLogsCatchAtBack(c, logsToSend) ==
  LET back == c.pendingLogs \o logsToSend
      kept == IF Len(back) > maxLogsBeforeSend * 2
                THEN sliceLast(back, maxLogsBeforeSend)
                ELSE back
  IN  [c EXCEPT !.fetches = @ \ {logsToSend},
                !.pendingLogs = kept,
                !.dropped = @ \cup (Range(back) \ Range(kept))]

\* sendLogs after the await, fetch rejected or !response.ok: the catch block.
sendLogsCatch(c, logsToSend) ==
  LET back == logsToSend \o c.pendingLogs
      kept == IF Len(back) > maxLogsBeforeSend * 2
                THEN sliceLast(back, maxLogsBeforeSend)
                ELSE back
  IN  [c EXCEPT !.fetches = @ \ {logsToSend},
                !.pendingLogs = kept,
                !.dropped = @ \cup (Range(back) \ Range(kept))]

logData(c, data) ==
  LET pushed == [c EXCEPT !.pendingLogs = Append(@, data)]
  IN  IF Len(pushed.pendingLogs) >= maxLogsBeforeSend
        THEN sendLogs(pushed)
        ELSE pushed

CommitLogger(c) ==
  /\ pendingLogs' = c.pendingLogs
  /\ fetches' = c.fetches
  /\ received' = c.received
  /\ dropped' = c.dropped

\* The page reports a state change, an ICE candidate or a stats sample.
LogData ==
  /\ logged < MaxLogged
  /\ logged' = logged + 1
  /\ CommitLogger(logData(Logger, logged + 1))
  /\ UNCHANGED serverVars

\* The setInterval callback of startLogSending, or WebRTCLogger.sendLogs().
SendLogs ==
  /\ CommitLogger(sendLogs(Logger))
  /\ UNCHANGED << logged, serverVars >>

\* The server answered a request with an ok status.
FetchOk(logsToSend) ==
  /\ logsToSend \in fetches
  /\ CommitLogger(sendLogsOk(Logger, logsToSend))
  /\ UNCHANGED << logged, serverVars >>

\* A request failed or was answered with a status that is not ok.
FetchFails(logsToSend) ==
  /\ logsToSend \in fetches
  /\ CommitLogger(sendLogsCatch(Logger, logsToSend))
  /\ UNCHANGED << logged, serverVars >>

InitLogger == Init /\ variant = "continuous" /\ pyScriptPresent

NextLogger ==
  \/ LogData
  \/ SendLogs
  \/ \E logsToSend \in fetches : FetchOk(logsToSend)
  \/ \E logsToSend \in fetches : FetchFails(logsToSend)

SpecLogger == InitLogger /\ [][NextLogger]_vars

LoggerTypeOK ==
  /\ logged \in 0..MaxLogged
  /\ Range(pendingLogs) \subseteq 1..logged

\* ----------------------------------------------------------------- C35
InFlightEntries == UNION { Range(logsToSend) : logsToSend \in fetches }

\* The batch of the request issued in this step, the batch of the request
\* that was settled in this step.
Issued == fetches' \ fetches
Settled == fetches \ fetches'

\* Every element of seq occurs once.
NoRepeats(seq) == \A i, j \in DOMAIN seq : seq[i] = seq[j] => i = j

\* C35: in the client logger, a send takes the whole pending queue (with the
\* entry logData has just pushed, when logData starts it) as one batch and
\* leaves the queue empty when the request is issued.  When a request fails
\* its batch goes back in front of the queue in its original order, ahead of
\* everything queued meanwhile; the overflow trim can then only cut entries
\* off the front of that.  When a request succeeds the queue is not touched
\* and the batch's entries are never in the queue or in a request again.
\* Every logged entry is in exactly one place: the queue, one in-flight
\* batch, received by the server, or cut by the overflow trim; and only a
\* failed send that overflows the queue cuts entries.
C35_BatchIsWholeQueueAndFailureRequeuesInFront ==
  [][ /\ \A logsToSend \in Issued :
           /\ Issued = {logsToSend}
           /\ logsToSend = IF logged' = logged
                             THEN pendingLogs
                             ELSE Append(pendingLogs, logged')
           /\ logsToSend # << >>
           /\ pendingLogs' = << >>
      /\ \A logsToSend \in Settled :
           /\ Settled = {logsToSend}
           /\ received' = received =>
                /\ \E n \in 0..Len(logsToSend \o pendingLogs) :
                     /\ pendingLogs' =
                          SubSeq(logsToSend \o pendingLogs, n + 1,
                                 Len(logsToSend \o pendingLogs))
                     /\ dropped' = dropped \cup
                          Range(SubSeq(logsToSend \o pendingLogs, 1, n))
                     /\ n > 0 =>
                          Len(logsToSend \o pendingLogs) > maxLogsBeforeSend * 2
           /\ received' # received =>
                /\ received' = received \cup Range(logsToSend)
                /\ pendingLogs' = pendingLogs
                /\ dropped' = dropped
      /\ Settled = {} => dropped' = dropped /\ received' = received
      /\ received \subseteq received'
      /\ Range(pendingLogs') \cap received' = {}
      /\ InFlightEntries' \cap received' = {}
      /\ Range(pendingLogs') \cap InFlightEntries' = {}
      /\ NoRepeats(pendingLogs')
      /\ \A b1, b2 \in fetches' :
           /\ NoRepeats(b1)
           /\ b1 # b2 => Range(b1) \cap Range(b2) = {}
      /\ dropped' \cap (Range(pendingLogs') \cup InFlightEntries' \cup received') = {}
      /\ Range(pendingLogs') \cup InFlightEntries' \cup received' \cup dropped'
           = 1..logged'
    ]_vars

\* A request has succeeded, another has failed and its batch is back in the
\* queue in front of an entry logged after it, and a third is in flight.
C35_Witness ==
  /\ received # {}
  /\ fetches # {}
  /\ dropped = {}
  /\ Len(pendingLogs) > maxLogsBeforeSend
  /\ \A i \in 1..(Len(pendingLogs) - 1) : pendingLogs[i] < pendingLogs[i + 1]

\* ----------------------------------------------------------------- C36
\* The n entries of the set that were logged last (all of them if there
\* are fewer).
Newest(entries, n) ==
  { e \in entries : Cardinality({ later \in entries : later > e }) < n }

\* C36: in the client logger the pending queue is bounded.  After every
\* logData call and after every settled send, successful or failed, the
\* queue holds at most 2 * maxLogsBeforeSend entries.  A failed send whose
\* batch, put back, makes the queue longer than that leaves exactly the
\* maxLogsBeforeSend entries that were logged last among those in the queue.
\* A logData call that brings the queue to maxLogsBeforeSend entries or more
\* issues a request and leaves the queue empty.
C36_QueueBoundedAndTrimKeepsNewest ==
  [][ /\ logged' # logged => Len(pendingLogs') <= maxLogsBeforeSend * 2
      /\ Settled # {} => Len(pendingLogs') <= maxLogsBeforeSend * 2
      /\ \A logsToSend \in Settled :
           ( /\ received' = received
             /\ Len(logsToSend \o pendingLogs) > maxLogsBeforeSend * 2 )
           => /\ Len(pendingLogs') = maxLogsBeforeSend
              /\ Range(pendingLogs') =
                   Newest(Range(logsToSend \o pendingLogs), maxLogsBeforeSend)
      /\ ( /\ logged' # logged
           /\ Len(pendingLogs) + 1 >= maxLogsBeforeSend )
         => /\ Issued # {}
            /\ pendingLogs' = << >>
    ]_vars

====
